---------------------------- MODULE Spec2Model ----------------------------
(***************************************************************************)
(* Orchestration layer of the ad creator: the settings store               *)
(* (ApiConfigManager), the per-capability provider factories, the          *)
(* long-running job pollers (Runway image, Runway video, HeyGen video),    *)
(* the audio recorder hook (useAudioRecorder) and the ad batch of the      *)
(* creator page (generateMultipleOptions).                                 *)
(*                                                                         *)
(* The subsystems share no state except the settings store, so each        *)
(* has its own next-state relation and specification:                      *)
(*   SpecFactory   settings store + provider factories                     *)
(*   SpecPoller    one job driven through a poller and its generate call   *)
(*   SpecRecorder  the recorder hook and the browser media objects it owns *)
(*   SpecStore     the settings store behind the settings panel:           *)
(*                 credentials, selections, persistence, import/export     *)
(*   SpecRoundTrip the store's import and export around updates            *)
(*   SpecSubscribers  the store's listeners around mutations               *)
(*   SpecSnapshot  a caller holding the object getSettings returned        *)
(*   SpecStubs     the factories over their unimplemented providers        *)
(*   SpecBatch     the ad batch of generateMultipleOptions                 *)
(*   SpecCredentials  credentials replaced between factory calls           *)
(***************************************************************************)
EXTENDS Integers, Sequences, FiniteSets, TLC

VARIABLES
    config,                 \* ApiSettings.config: provider id -> stored key (partial)
    selectedImageProvider,  \* ApiSettings.selectedImageProvider
    selectedTextProvider,   \* ApiSettings.selectedTextProvider
    selectedVideoProvider,  \* ApiSettings.selectedVideoProvider
    extra,                  \* properties of this.settings that are not in ApiSettings
    storage,                \* localStorage[STORAGE_KEY]: the stored blob
    listeners,              \* ApiConfigManager.listeners, in array order
    subs,                   \* every subscribe() call so far: its listener, and whether
                            \* the unsubscribe function it returned has been called
    notified,               \* the listener invocations the last store operation made
    report,                 \* what the last store operation gave back to its caller
    snapshot,               \* the object a caller holds from its last getSettings()
    call,                   \* the factory generate call the last step made, and its outcome
    job,                    \* the job-based generation call in progress (poller state)
    batch,                  \* generateMultipleOptions: the ads being generated jointly
    service,                \* the service objects the providers keep, by the key each holds
    rec                     \* the recorder hook: React state, refs and media objects

vars == <<config, selectedImageProvider, selectedTextProvider,
          selectedVideoProvider, extra, storage, listeners, subs, notified, report,
          snapshot, call, job, batch, service, rec>>

storeVars == <<config, selectedImageProvider, selectedTextProvider,
               selectedVideoProvider, extra, storage, listeners, subs, notified,
               report, snapshot>>

-----------------------------------------------------------------------------
(* Values *)

\* JavaScript's undefined where a key string is expected (a missing config entry).
Undefined == <<"undefined">>

\* JavaScript's undefined where a provider id is expected (providerType omitted).
NoProvider == "undefined"

\* A string is a sequence of one-character strings; "" is <<>>.
IsSpace(c) == c = " "

RECURSIVE TrimStart(_)
TrimStart(s) == IF s # <<>> /\ IsSpace(Head(s)) THEN TrimStart(Tail(s)) ELSE s

RECURSIVE TrimEnd(_)
TrimEnd(s) ==
    IF s # <<>> /\ IsSpace(s[Len(s)]) THEN TrimEnd(SubSeq(s, 1, Len(s) - 1)) ELSE s

\* String.prototype.trim
Trim(s) == TrimEnd(TrimStart(s))

\* JavaScript truthiness of a string | undefined value: "" and undefined are falsy.
Truthy(v) == v # Undefined /\ v # <<>>

\* Keys the user types into the settings panel: a key, the same key with
\* surrounding blanks, and a blank-only input.
KeyA      == <<"k", "1">>
KeyPadded == <<" ", "k", "1", " ">>
KeyBlank  == <<" ">>
KeyB      == <<"k", "2">>
SampleKeys == {KeyA, KeyPadded, KeyBlank}

\* Provider identifiers (apiConfig.ts).
ImageProvider == {"openai", "runware", "runway", "midjourney", "replicate"}
TextProvider  == {"openai", "claude", "gemini"}
VideoProvider == {"heygen", "synthesia", "runway", "luma", "pika"}
ApiConfigKeys == ImageProvider \cup TextProvider \cup VideoProvider \cup {"elevenlabs"}

\* The providers whose credential the model's user edits, and the providers
\* the user selects per capability.
CredProviders   == {"openai", "runware", "heygen", "synthesia"}
SelectableImage == {"openai", "runware", "runway"}
SelectableText  == {"openai", "claude"}
SelectableVideo == {"heygen", "runway"}

-----------------------------------------------------------------------------
(* Settings store: ApiConfigManager *)

\* The factory call the last step made; NoCall after any other step.
NoCall ==
    [factory |-> "none", explicit |-> NoProvider, resolved |-> "none",
     configured |-> FALSE, result |-> "none", names |-> "none",
     requests |-> 0, provider |-> "none", apiKey |-> Undefined]

\* config: {}
EmptyConfig == [x \in {} |-> <<>>]

\* No property besides those of ApiSettings.
NoExtra == [x \in {} |-> ""]

DefaultSettings ==
    [config |-> EmptyConfig,
     selectedImageProvider |-> "openai",
     selectedTextProvider  |-> "openai",
     selectedVideoProvider |-> "heygen",
     extra |-> NoExtra]

\* this.settings as one record (what JSON.stringify(this.settings) serialises).
settings ==
    [config |-> config,
     selectedImageProvider |-> selectedImageProvider,
     selectedTextProvider  |-> selectedTextProvider,
     selectedVideoProvider |-> selectedVideoProvider,
     extra |-> extra]

\* A serialized settings record. JSON.stringify leaves out a property whose
\* value is undefined, and reading a property the text does not have gives
\* undefined: both are NoProvider here. `indent` is the third argument of
\* JSON.stringify (0 compact, 2 pretty-printed); the parser ignores it.
NoBlob ==
    [kind |-> "absent", indent |-> 0, hasConfig |-> FALSE, config |-> EmptyConfig,
     selectedImageProvider |-> NoProvider, selectedTextProvider |-> NoProvider,
     selectedVideoProvider |-> NoProvider, extra |-> NoExtra]

\* Text that JSON.parse rejects.
Garbage == [NoBlob EXCEPT !.kind = "garbage"]

\* JSON.stringify(s, null, indent)
JSONstringify(s, indent) ==
    [kind |-> "json", indent |-> indent, hasConfig |-> TRUE, config |-> s.config,
     selectedImageProvider |-> s.selectedImageProvider,
     selectedTextProvider  |-> s.selectedTextProvider,
     selectedVideoProvider |-> s.selectedVideoProvider,
     extra |-> s.extra]

\* JSON.parse(text): the object, or a thrown SyntaxError.
JSONparse(text) ==
    IF text.kind = "json"
    THEN [threw |-> FALSE, hasConfig |-> text.hasConfig, config |-> text.config,
          selectedImageProvider |-> text.selectedImageProvider,
          selectedTextProvider  |-> text.selectedTextProvider,
          selectedVideoProvider |-> text.selectedVideoProvider,
          extra |-> text.extra]
    ELSE [threw |-> TRUE, hasConfig |-> FALSE, config |-> EmptyConfig,
          selectedImageProvider |-> NoProvider, selectedTextProvider |-> NoProvider,
          selectedVideoProvider |-> NoProvider, extra |-> NoExtra]

\* The settings record of a parsed object.
AsSettings(o) ==
    [config |-> o.config,
     selectedImageProvider |-> o.selectedImageProvider,
     selectedTextProvider  |-> o.selectedTextProvider,
     selectedVideoProvider |-> o.selectedVideoProvider,
     extra |-> o.extra]

\* notifyListeners: this.listeners.forEach(listener => listener(this.settings))
notifyListeners(s) ==
    [i \in 1..Len(listeners) |-> [listener |-> listeners[i], settings |-> s]]

NoReport == [op |-> "none", returned |-> "none", toasts |-> <<>>]

\* What a store operation gives back: its return value and the toasts it
\* shows. No operation of the store throws: saveSettings and importSettings
\* catch every error.
Report(op, returned, toasts) == [op |-> op, returned |-> returned, toasts |-> toasts]

SaveErrorToast == "Erro ao salvar configurações"

\* The toasts of an operation that calls saveSettings and then shows `success`.
SaveToasts(writeOk, success) ==
    IF writeOk THEN <<success>> ELSE <<SaveErrorToast, success>>

saveSettings_notifyAlways(s, writeOk) ==
    /\ storage' = IF writeOk THEN JSONstringify(s, 0) ELSE storage
    /\ notified' = notifyListeners(s)

\* saveSettings: localStorage.setItem(STORAGE_KEY, JSON.stringify(this.settings))
\* and then notifyListeners(), for the settings `s` the caller has just
\* assigned; a throwing write (quota) is caught before the listeners are
\* reached and leaves the stored blob as it was.
saveSettings(s, writeOk) ==
    /\ storage' = IF writeOk THEN JSONstringify(s, 0) ELSE storage
    /\ notified' = IF writeOk THEN notifyListeners(s) ELSE <<>>

getApiKey(provider) ==
    IF provider \in DOMAIN config THEN config[provider] ELSE Undefined

\* hasApiKey: !!apiKey?.trim()
hasApiKey(provider) ==
    LET apiKey == getApiKey(provider)
    IN  apiKey # Undefined /\ Trim(apiKey) # <<>>

getSelectedImageProvider == selectedImageProvider
getSelectedTextProvider  == selectedTextProvider
getSelectedVideoProvider == selectedVideoProvider

\* f with the entry for k set to v (k may be new).
Put(f, k, v) == [x \in (DOMAIN f) \cup {k} |-> IF x = k THEN v ELSE f[x]]

\* f without the entry for k (delete f[k]).
Delete(f, k) == [x \in (DOMAIN f) \ {k} |-> f[x]]

\* No getSettings() result is held.
NoSnapshot ==
    [taken |-> FALSE, shared |-> FALSE, config |-> EmptyConfig,
     selectedImageProvider |-> NoProvider, selectedTextProvider |-> NoProvider,
     selectedVideoProvider |-> NoProvider]

\* this.settings = <a new object>: a held snapshot whose config property was
\* the store's config object keeps that object, with the entries it had.
Detach(snap) ==
    IF snap.shared THEN [snap EXCEPT !.shared = FALSE, !.config = config] ELSE snap

updateApiKey(provider, apiKey, writeOk) ==
    /\ config' = Put(config, provider, Trim(apiKey))
    /\ saveSettings([settings EXCEPT !.config = config'], writeOk)
    /\ report' = Report("updateApiKey", "void", SaveToasts(writeOk, "Chave API atualizada"))
    /\ call' = NoCall
    /\ UNCHANGED <<selectedImageProvider, selectedTextProvider,
                   selectedVideoProvider, extra, listeners, subs, snapshot, job, rec, batch, service>>

removeApiKey(provider, writeOk) ==
    /\ config' = Delete(config, provider)
    /\ saveSettings([settings EXCEPT !.config = config'], writeOk)
    /\ report' = Report("removeApiKey", "void", SaveToasts(writeOk, "Chave API removida"))
    /\ call' = NoCall
    /\ UNCHANGED <<selectedImageProvider, selectedTextProvider,
                   selectedVideoProvider, extra, listeners, subs, snapshot, job, rec, batch, service>>

setImageProvider(provider, writeOk) ==
    /\ selectedImageProvider' = provider
    /\ saveSettings([settings EXCEPT !.selectedImageProvider = provider], writeOk)
    /\ report' = Report("setImageProvider", "void",
                        SaveToasts(writeOk, "Provedor de imagem alterado"))
    /\ call' = NoCall
    /\ UNCHANGED <<config, selectedTextProvider, selectedVideoProvider, extra,
                   listeners, subs, snapshot, job, rec, batch, service>>

setTextProvider(provider, writeOk) ==
    /\ selectedTextProvider' = provider
    /\ saveSettings([settings EXCEPT !.selectedTextProvider = provider], writeOk)
    /\ report' = Report("setTextProvider", "void",
                        SaveToasts(writeOk, "Provedor de texto alterado"))
    /\ call' = NoCall
    /\ UNCHANGED <<config, selectedImageProvider, selectedVideoProvider, extra,
                   listeners, subs, snapshot, job, rec, batch, service>>

setVideoProvider(provider, writeOk) ==
    /\ selectedVideoProvider' = provider
    /\ saveSettings([settings EXCEPT !.selectedVideoProvider = provider], writeOk)
    /\ report' = Report("setVideoProvider", "void",
                        SaveToasts(writeOk, "Provedor de vídeo alterado"))
    /\ call' = NoCall
    /\ UNCHANGED <<config, selectedImageProvider, selectedTextProvider, extra,
                   listeners, subs, snapshot, job, rec, batch, service>>

clearAllSettings(writeOk) ==
    /\ config' = DefaultSettings.config
    /\ selectedImageProvider' = DefaultSettings.selectedImageProvider
    /\ selectedTextProvider'  = DefaultSettings.selectedTextProvider
    /\ selectedVideoProvider' = DefaultSettings.selectedVideoProvider
    /\ extra' = DefaultSettings.extra
    /\ saveSettings(DefaultSettings, writeOk)
    /\ report' = Report("clearAllSettings", "void",
                        SaveToasts(writeOk, "Todas as configurações foram limpas"))
    /\ snapshot' = Detach(snapshot)
    /\ call' = NoCall
    /\ UNCHANGED <<listeners, subs, job, rec, batch, service>>

-----------------------------------------------------------------------------
(* Settings store: validation, the settings panel, import/export, load,     *)
(* subscribers and snapshots                                                *)

\* The string of n copies of the character c.
RECURSIVE Repeat(_, _)
Repeat(c, n) == IF n = 0 THEN <<>> ELSE <<c>> \o Repeat(c, n - 1)

\* String.prototype.startsWith
StartsWith(str, prefix) ==
    Len(str) >= Len(prefix) /\ SubSeq(str, 1, Len(prefix)) = prefix

SkPrefix == <<"s", "k", "-">>
R8Prefix == <<"r", "8", "_">>

\* validateApiKey: provider-specific shape checks on the candidate as given
\* (the candidate is not trimmed).
validateApiKey(provider, apiKey) ==
    CASE provider \in {"openai", "claude"} ->
            StartsWith(apiKey, SkPrefix) /\ Len(apiKey) > 20
      [] provider = "replicate" ->
            StartsWith(apiKey, R8Prefix) /\ Len(apiKey) > 20
      [] provider \in {"runware", "runway", "midjourney", "gemini", "heygen",
                       "synthesia", "luma", "pika", "elevenlabs"} ->
            Len(apiKey) > 10
      [] OTHER -> Len(apiKey) > 0

\* Keys typed into the settings panel: a well-formed sk- key (21 characters),
\* the same key followed by a blank, ten characters followed by a blank
\* (eleven characters as typed), a key that is too short, and a blank.
KeySk        == SkPrefix \o Repeat("a", 18)
KeySkPadded  == KeySk \o <<" ">>
KeyTenPadded == Repeat("b", 10) \o <<" ">>
KeyShort     == SkPrefix \o <<"1">>
PanelKeys    == {KeySk, KeySkPadded, KeyTenPadded, KeyShort, KeyBlank}

\* The providers whose key the panel's user edits.
PanelProviders == {"openai", "runware"}

\* ApiConfigPanel.saveApiKey: the panel's handler for saving the key typed
\* for `provider`; it calls the store only for a non-blank key that
\* validateApiKey accepts.
saveApiKey_unvalidated(provider, key, writeOk) ==
    updateApiKey(provider, key, writeOk)

saveApiKey(provider, key, writeOk) ==
    IF Trim(key) = <<>>
    THEN /\ report' = Report("saveApiKey", "void", <<"Chave API não pode estar vazia">>)
         /\ notified' = <<>>
         /\ call' = NoCall
         /\ UNCHANGED <<config, selectedImageProvider, selectedTextProvider,
                        selectedVideoProvider, extra, storage, listeners, subs,
                        snapshot, job, rec, batch, service>>
    ELSE IF ~validateApiKey(provider, key)
    THEN /\ report' = Report("saveApiKey", "void", <<"Formato de chave API inválido">>)
         /\ notified' = <<>>
         /\ call' = NoCall
         /\ UNCHANGED <<config, selectedImageProvider, selectedTextProvider,
                        selectedVideoProvider, extra, storage, listeners, subs,
                        snapshot, job, rec, batch, service>>
    ELSE updateApiKey(provider, key, writeOk)

\* exportSettings: JSON.stringify(this.settings, null, 2)
exportSettings == JSONstringify(settings, 2)

\* importSettings, line 201: the parsed object is taken only if it has a
\* truthy config and a truthy selectedImageProvider.
importAccepts_anyObject(o) == ~o.threw

importAccepts(o) ==
    ~o.threw /\ o.hasConfig /\ o.selectedImageProvider # NoProvider

\* importSettings, lines 203-209: defaults for the absent text and video
\* selections; the parsed object itself becomes this.settings, with whatever
\* other properties it has.
importDefaults_knownFields(o) ==
    [config |-> o.config,
     selectedImageProvider |-> o.selectedImageProvider,
     selectedTextProvider  |->
        IF o.selectedTextProvider = NoProvider THEN "openai"
        ELSE o.selectedTextProvider,
     selectedVideoProvider |->
        IF o.selectedVideoProvider = NoProvider THEN "heygen"
        ELSE o.selectedVideoProvider,
     extra |-> NoExtra]

importDefaults(o) ==
    [config |-> o.config,
     selectedImageProvider |-> o.selectedImageProvider,
     selectedTextProvider  |->
        IF o.selectedTextProvider = NoProvider THEN "openai"
        ELSE o.selectedTextProvider,
     selectedVideoProvider |->
        IF o.selectedVideoProvider = NoProvider THEN "heygen"
        ELSE o.selectedVideoProvider,
     extra |-> o.extra]

importSettings(settingsJson, writeOk) ==
    LET o == JSONparse(settingsJson)
        imported == importDefaults(o)
    IN  IF importAccepts(o)
        THEN /\ config' = imported.config
             /\ selectedImageProvider' = imported.selectedImageProvider
             /\ selectedTextProvider'  = imported.selectedTextProvider
             /\ selectedVideoProvider' = imported.selectedVideoProvider
             /\ extra' = imported.extra
             /\ saveSettings(imported, writeOk)
             /\ report' = Report("importSettings", "true",
                    SaveToasts(writeOk, "Configurações importadas com sucesso"))
             /\ snapshot' = Detach(snapshot)
             /\ call' = NoCall
             /\ UNCHANGED <<listeners, subs, job, rec, batch, service>>
        ELSE /\ report' = Report("importSettings", "false",
                    <<"Erro ao importar configurações">>)
             /\ notified' = <<>>
             /\ call' = NoCall
             /\ UNCHANGED <<config, selectedImageProvider, selectedTextProvider,
                            selectedVideoProvider, extra, storage, listeners, subs,
                            snapshot, job, rec, batch, service>>

\* The panel's export followed by an import of the exported text.
importExported(writeOk) == importSettings(exportSettings, writeOk)

\* loadSettings: the parsed stored text as it is, or the defaults when
\* nothing is stored or the text does not parse.
loadSettings(stored) ==
    IF stored.kind = "absent" THEN DefaultSettings
    ELSE IF JSONparse(stored).threw THEN DefaultSettings
    ELSE AsSettings(JSONparse(stored))

\* Files a user imports: text that does not parse, an object without config,
\* a full export of this version, an export of the version that had no video
\* selection, an export of the version that has no image selection, an object
\* with config alone, and a full export whose config holds an empty key.
BlobNoConfig ==
    [JSONstringify(DefaultSettings, 2) EXCEPT !.hasConfig = FALSE]
BlobFull ==
    JSONstringify([config |-> Put(EmptyConfig, "openai", KeySk),
                   selectedImageProvider |-> "runware",
                   selectedTextProvider  |-> "claude",
                   selectedVideoProvider |-> "runway",
                   extra |-> NoExtra], 2)
BlobNoVideo ==
    JSONstringify([config |-> Put(EmptyConfig, "openai", KeySk),
                   selectedImageProvider |-> "openai",
                   selectedTextProvider  |-> "openai",
                   selectedVideoProvider |-> NoProvider,
                   extra |-> NoExtra], 2)
BlobNoImage ==
    JSONstringify([config |-> EmptyConfig,
                   selectedImageProvider |-> NoProvider,
                   selectedTextProvider  |-> "openai",
                   selectedVideoProvider |-> "runway",
                   extra |-> NoExtra], 2)
BlobConfigOnly ==
    JSONstringify([config |-> Put(EmptyConfig, "openai", KeySk),
                   selectedImageProvider |-> NoProvider,
                   selectedTextProvider  |-> NoProvider,
                   selectedVideoProvider |-> NoProvider,
                   extra |-> NoExtra], 2)
BlobEmptyKey ==
    JSONstringify([DefaultSettings EXCEPT !.config = Put(EmptyConfig, "runware", <<>>)], 2)
\* A full export that carries a property ApiSettings does not have.
BlobExtra == [BlobFull EXCEPT !.extra = [x \in {"theme"} |-> "dark"]]
ImportBlobs ==
    {Garbage, BlobNoConfig, BlobFull, BlobNoVideo, BlobNoImage, BlobConfigOnly,
     BlobEmptyKey, BlobExtra}

\* What localStorage holds when the page is opened: nothing, text that does
\* not parse, or the record an earlier version of the store wrote (it had no
\* video selection).
StoredNoVideo == [BlobNoVideo EXCEPT !.indent = 0]
InitialBlobs == {NoBlob, Garbage, StoredNoVideo}

\* The providers that keep their service object in a field (private service),
\* by factory and registry key.
CachedServices == {<<"image", "openai">>, <<"image", "runware">>, <<"textCtor", "openai">>}

\* The service fields when the registries are built: null, except that the
\* constructor of the "textCtor" OpenAI provider builds its service from the
\* key stored at that moment, when there is one.
constructed ==
    [x \in CachedServices |->
        IF x = <<"textCtor", "openai">> /\ Truthy(getApiKey("openai"))
        THEN getApiKey("openai")
        ELSE Undefined]

\* The page is opened again: a new ApiConfigManager is constructed, with no
\* listeners, and its constructor assigns this.settings = this.loadSettings();
\* the provider registries are built anew over it.
openPage ==
    /\ config' = loadSettings(storage).config
    /\ selectedImageProvider' = loadSettings(storage).selectedImageProvider
    /\ selectedTextProvider'  = loadSettings(storage).selectedTextProvider
    /\ selectedVideoProvider' = loadSettings(storage).selectedVideoProvider
    /\ extra' = loadSettings(storage).extra
    /\ listeners' = <<>>
    /\ subs' = <<>>
    /\ notified' = <<>>
    /\ snapshot' = NoSnapshot
    /\ report' = Report("loadSettings", "object", <<>>)
    /\ call' = NoCall
    /\ UNCHANGED <<storage, job, rec, batch>>
    /\ service' = constructed'

\* getSettings: return { ...this.settings } -- a new object with the same
\* property values, so its config property is the store's config object.
getSettings ==
    /\ snapshot' = [taken |-> TRUE, shared |-> TRUE, config |-> EmptyConfig,
                    selectedImageProvider |-> selectedImageProvider,
                    selectedTextProvider  |-> selectedTextProvider,
                    selectedVideoProvider |-> selectedVideoProvider]
    /\ report' = Report("getSettings", "object", <<>>)
    /\ notified' = <<>>
    /\ call' = NoCall
    /\ UNCHANGED <<config, selectedImageProvider, selectedTextProvider,
                   selectedVideoProvider, extra, storage, listeners, subs, job, rec, batch, service>>

\* The config the held snapshot shows.
SnapshotConfig == IF snapshot.shared THEN config ELSE snapshot.config

\* The caller of getSettings writes to the object it was given:
\* snapshot.config[provider] = key
SnapshotPutKey(provider, key) ==
    /\ snapshot.taken
    /\ IF snapshot.shared
       THEN config' = Put(config, provider, key) /\ UNCHANGED snapshot
       ELSE /\ snapshot' = [snapshot EXCEPT !.config = Put(@, provider, key)]
            /\ UNCHANGED config
    /\ report' = Report("caller", "none", <<>>)
    /\ notified' = <<>>
    /\ call' = NoCall
    /\ UNCHANGED <<selectedImageProvider, selectedTextProvider,
                   selectedVideoProvider, extra, storage, listeners, subs, job, rec, batch, service>>

\* delete snapshot.config[provider]
SnapshotDeleteKey(provider) ==
    /\ snapshot.taken
    /\ IF snapshot.shared
       THEN config' = Delete(config, provider) /\ UNCHANGED snapshot
       ELSE /\ snapshot' = [snapshot EXCEPT !.config = Delete(@, provider)]
            /\ UNCHANGED config
    /\ report' = Report("caller", "none", <<>>)
    /\ notified' = <<>>
    /\ call' = NoCall
    /\ UNCHANGED <<selectedImageProvider, selectedTextProvider,
                   selectedVideoProvider, extra, storage, listeners, subs, job, rec, batch, service>>

\* snapshot.selectedVideoProvider = provider
SnapshotSelectVideo(provider) ==
    /\ snapshot.taken
    /\ snapshot' = [snapshot EXCEPT !.selectedVideoProvider = provider]
    /\ report' = Report("caller", "none", <<>>)
    /\ notified' = <<>>
    /\ call' = NoCall
    /\ UNCHANGED <<config, selectedImageProvider, selectedTextProvider,
                   selectedVideoProvider, extra, storage, listeners, subs, job, rec, batch, service>>

\* Listener functions, and the number of subscribe() calls in a run.
ListenerFns == {"f", "g"}
MaxSubs == 3

\* subscribe: this.listeners.push(listener); the function it returns is
\* identified by the position of this call in subs.
subscribe(listener) ==
    /\ Len(subs) < MaxSubs
    /\ listeners' = Append(listeners, listener)
    /\ subs' = Append(subs, [listener |-> listener, active |-> TRUE])
    /\ report' = Report("subscribe", "function", <<>>)
    /\ notified' = <<>>
    /\ call' = NoCall
    /\ UNCHANGED <<config, selectedImageProvider, selectedTextProvider,
                   selectedVideoProvider, extra, storage, snapshot, job, rec, batch, service>>

\* Array.prototype.indexOf: the first position of x in seq, 0 when absent.
indexOf(seq, x) ==
    IF \E i \in 1..Len(seq) : seq[i] = x
    THEN CHOOSE i \in 1..Len(seq) :
            seq[i] = x /\ \A j \in 1..(i - 1) : seq[j] # x
    ELSE 0

\* Array.prototype.splice(index, 1)
splice(seq, index) ==
    SubSeq(seq, 1, index - 1) \o SubSeq(seq, index + 1, Len(seq))

\* The unsubscribe function the n-th subscribe() call returned, called for the
\* first time: it removes the first occurrence of its listener.
unsubscribe(n) ==
    /\ n \in 1..Len(subs)
    /\ subs[n].active
    /\ LET index == indexOf(listeners, subs[n].listener)
       IN  listeners' = IF index > 0 THEN splice(listeners, index) ELSE listeners
    /\ subs' = [subs EXCEPT ![n].active = FALSE]
    /\ report' = Report("unsubscribe", "void", <<>>)
    /\ notified' = <<>>
    /\ call' = NoCall
    /\ UNCHANGED <<config, selectedImageProvider, selectedTextProvider,
                   selectedVideoProvider, extra, storage, snapshot, job, rec, batch, service>>

-----------------------------------------------------------------------------
(* Provider implementations behind the capability interfaces.               *)
(* A factory is named by the file that defines it:                          *)
(*   "image"        ImageProviderFactory, five registered providers         *)
(*   "imageSingle"  ImageProviderFactory, the OpenAI-only variant           *)
(*   "video"        VideoProviderFactory                                    *)
(*   "text"         TextProviderFactory                                     *)
(*   "textCtor"     TextProviderFactory whose OpenAI provider builds its    *)
(*                  service in its constructor                              *)
(* A provider is named by its registry key.                                 *)

Factories == {"image", "imageSingle", "video", "text", "textCtor"}

\* The static registries (private static providers).
Registry(f) ==
    CASE f = "image"       -> ImageProvider
      [] f = "imageSingle" -> {"openai"}
      [] f = "video"       -> VideoProvider
      [] f \in {"text", "textCtor"} -> TextProvider

\* Providers whose generate method only throws "not implemented".
Stubs(f) ==
    CASE f = "image"       -> {"runway", "midjourney", "replicate"}
      [] f = "imageSingle" -> {}
      [] f = "video"       -> {"synthesia", "runway", "luma", "pika"}
      [] f \in {"text", "textCtor"} -> {"claude", "gemini"}

\* provider.isConfigured(): the image and text stubs return false outright,
\* every other provider asks the store.
isConfigured(f, id) ==
    IF f \in {"image", "text", "textCtor"} /\ id \in Stubs(f)
    THEN FALSE
    ELSE hasApiKey(id)

\* provider.getProviderName()
getProviderName(f, id) ==
    CASE f \in {"image", "imageSingle"} /\ id = "openai" -> "OpenAI DALL-E 3"
      [] f = "image" /\ id = "runware"    -> "Runware AI"
      [] f = "image" /\ id = "runway"     -> "Runway ML (Em breve)"
      [] f = "image" /\ id = "midjourney" -> "Midjourney (Em breve)"
      [] f = "image" /\ id = "replicate"  -> "Replicate (Em breve)"
      [] f = "video" /\ id = "heygen"     -> "HeyGen"
      [] f = "video" /\ id = "synthesia"  -> "Synthesia"
      [] f = "video" /\ id = "runway"     -> "Runway ML"
      [] f = "video" /\ id = "luma"       -> "Luma AI"
      [] f = "video" /\ id = "pika"       -> "Pika Labs"
      [] f \in {"text", "textCtor"} /\ id = "openai" -> "OpenAI GPT-4"
      [] f \in {"text", "textCtor"} /\ id = "claude" -> "Claude (Em breve)"
      [] f \in {"text", "textCtor"} /\ id = "gemini" -> "Gemini (Em breve)"

\* What a generate call delivered:
\*   result     "config_error"     the factory's "não está configurado" rejection
\*              "key_error"        the provider's own "Chave API ... não configurada"
\*              "not_implemented"  a stub's rejection
\*              "provider_error"   the provider's API call failed
\*              "success"          an asset was returned
\*   names      the provider name the error message carries
\*   requests   network requests issued during the call
\*   provider   the provider field stamped on a successful result
\*   apiKey     the key the network requests authenticated with
Outcome(f, providerType, id, conf, result, names, requests, provider) ==
    [factory |-> f, explicit |-> providerType, resolved |-> id,
     configured |-> conf, result |-> result, names |-> names,
     requests |-> requests, provider |-> provider, apiKey |-> Undefined]

\* The service fields after getService() of provider `id`: the image providers
\* build the service from the stored key the first time they are used with
\* one, and keep it.
getService(f, id) ==
    IF /\ f = "image" /\ <<f, id>> \in CachedServices
       /\ Truthy(getApiKey(id))
       /\ service[<<f, id>>] = Undefined
    THEN [service EXCEPT ![<<f, id>>] = getApiKey(id)]
    ELSE service

\* The service fields after a factory call for provider `id`: the provider
\* is reached only through the gate.
serviceAfter(f, id) ==
    IF isConfigured(f, id) THEN getService(f, id) ELSE service

\* The provider's own check fails: "textCtor" looks at its service field
\* (if (!this.service) throw), every other provider at the stored key
\* (if (!apiKey) throw).
keyMissing(f, id) ==
    IF f = "textCtor" /\ id = "openai"
    THEN service[<<f, id>>] = Undefined
    ELSE ~Truthy(getApiKey(id))

\* The key of the service object the request goes through: the kept one
\* where the provider keeps it, else a service built from the stored key.
serviceKey(f, id) ==
    IF <<f, id>> \in CachedServices
    THEN getService(f, id)[<<f, id>>]
    ELSE getApiKey(id)

\* provider.generateImage / generateVideo / analyzeBusinessDocument of provider
\* `id`, once the factory has let the call through. `apiOk` is the outcome of
\* the third-party API.
providerGenerate(f, providerType, id, apiOk) ==
    LET conf == isConfigured(f, id)
        name == getProviderName(f, id)
        \* RunwayVideoProvider reads its key before it throws "not implemented"
        keyFirst == f = "video" /\ id = "runway"
    IN  IF id \in Stubs(f) /\ ~keyFirst
        THEN Outcome(f, providerType, id, conf, "not_implemented", name, 0, "none")
        ELSE IF keyMissing(f, id)
        THEN Outcome(f, providerType, id, conf, "key_error", name, 0, "none")
        ELSE IF id \in Stubs(f)
        THEN Outcome(f, providerType, id, conf, "not_implemented", name, 0, "none")
        ELSE IF apiOk
        THEN [Outcome(f, providerType, id, conf, "success", "none", 1, id)
                EXCEPT !.apiKey = serviceKey(f, id)]
        ELSE [Outcome(f, providerType, id, conf, "provider_error", "none", 1, "none")
                EXCEPT !.apiKey = serviceKey(f, id)]

-----------------------------------------------------------------------------
(* Provider factories *)

\* ImageProviderFactory.getProvider: providerType || selected image provider
Image_getProvider(providerType) ==
    IF providerType # NoProvider THEN providerType ELSE getSelectedImageProvider

\* ImageProviderFactory.getProvider of the OpenAI-only variant:
\* const selectedProvider = 'openai'
ImageSingle_getProvider(providerType) == "openai"

\* VideoProviderFactory.getProvider: providerType || 'heygen'; the settings it
\* reads are not used.
Video_getProvider(providerType) ==
    IF providerType # NoProvider THEN providerType ELSE "heygen"

\* TextProviderFactory.getProvider: providerType || selected text provider
Text_getProvider(providerType) ==
    IF providerType # NoProvider THEN providerType ELSE getSelectedTextProvider

getProvider(f, providerType) ==
    CASE f = "image"       -> Image_getProvider(providerType)
      [] f = "imageSingle" -> ImageSingle_getProvider(providerType)
      [] f = "video"       -> Video_getProvider(providerType)
      [] f \in {"text", "textCtor"} -> Text_getProvider(providerType)

\* The gate left out: the provider is invoked whatever isConfigured() says.
gate_unchecked(f, providerType, id, apiOk) ==
    providerGenerate(f, providerType, id, apiOk)

\* The factory's gate: if (!provider.isConfigured()) throw new Error(`${name} não
\* está configurado ...`), before the provider is invoked.
gate(f, providerType, id, apiOk) ==
    IF ~isConfigured(f, id)
    THEN Outcome(f, providerType, id, FALSE, "config_error",
                 getProviderName(f, id), 0, "none")
    ELSE providerGenerate(f, providerType, id, apiOk)

\* The explicit providers a caller of factory f may pass, or none.
Explicit(f) == Registry(f) \cup {NoProvider}

\* ImageProviderFactory.generateImage (five-provider factory)
ImageFactory_generateImage(providerType, apiOk) ==
    /\ call' = gate("image", providerType, Image_getProvider(providerType), apiOk)
    /\ service' = serviceAfter("image", Image_getProvider(providerType))
    /\ UNCHANGED <<storeVars, job, rec, batch>>

\* ImageProviderFactory.generateImage (OpenAI-only variant)
ImageSingleFactory_generateImage(providerType, apiOk) ==
    /\ call' = gate("imageSingle", providerType,
                    ImageSingle_getProvider(providerType), apiOk)
    /\ service' = serviceAfter("imageSingle", ImageSingle_getProvider(providerType))
    /\ UNCHANGED <<storeVars, job, rec, batch>>

\* TextProviderFactory.analyzeBusinessDocument / generateAdPrompt /
\* generateMultipleAdOptions of the factory whose OpenAI provider builds its
\* service in its constructor
TextCtorFactory_analyzeBusinessDocument(providerType, apiOk) ==
    /\ call' = gate("textCtor", providerType, Text_getProvider(providerType), apiOk)
    /\ service' = serviceAfter("textCtor", Text_getProvider(providerType))
    /\ UNCHANGED <<storeVars, job, rec, batch>>

\* VideoProviderFactory.generateVideo
VideoFactory_generateVideo(providerType, apiOk) ==
    /\ call' = gate("video", providerType, Video_getProvider(providerType), apiOk)
    /\ service' = serviceAfter("video", Video_getProvider(providerType))
    /\ UNCHANGED <<storeVars, job, rec, batch>>

\* TextProviderFactory.analyzeBusinessDocument / generateAdPrompt /
\* generateMultipleAdOptions: the three share the gate
TextFactory_analyzeBusinessDocument(providerType, apiOk) ==
    /\ call' = gate("text", providerType, Text_getProvider(providerType), apiOk)
    /\ service' = serviceAfter("text", Text_getProvider(providerType))
    /\ UNCHANGED <<storeVars, job, rec, batch>>

-----------------------------------------------------------------------------
(* Long-running jobs: submit, then poll the job's status.                   *)
(*   "runwayImage"  RunwayService.generateImage / pollForCompletion         *)
(*   "runwayVideo"  RunwayService.generateVideo / pollForVideoCompletion    *)
(*   "heygen"       HeyGenProvider.generateVideo over                       *)
(*                  HeyGenService.generateVideo / pollVideoStatus           *)

JobKinds == {"runwayImage", "runwayVideo", "heygen"}

\* The default attempt budgets (maxAttempts = 30 / 60 / 30).
RunwayImageMaxAttempts == 30
RunwayVideoMaxAttempts == 60
HeyGenMaxAttempts      == 30

DefaultMaxAttempts(kind) ==
    CASE kind = "runwayImage" -> RunwayImageMaxAttempts
      [] kind = "runwayVideo" -> RunwayVideoMaxAttempts
      [] kind = "heygen"      -> HeyGenMaxAttempts

\* Small budgets explored besides the defaults.
MaxBudget == 3

Budgets(kind) == (1..MaxBudget) \cup {DefaultMaxAttempts(kind)}

\* What one status request can come back with. The provider's status names are
\* PENDING / RUNNING / SUCCEEDED / FAILED (Runway) and pending / processing /
\* completed / failed (HeyGen); asset tells whether the response carries the
\* image / output[0] / video_url.
\*   "network_error"  fetch rejected
\*   "http_error"     response.ok is false
StatusResponses ==
    {[net |-> "network_error", status |-> "none", asset |-> FALSE],
     [net |-> "http_error",    status |-> "none", asset |-> FALSE],
     [net |-> "ok", status |-> "pending",   asset |-> FALSE],
     [net |-> "ok", status |-> "running",   asset |-> FALSE],
     [net |-> "ok", status |-> "failed",    asset |-> FALSE],
     [net |-> "ok", status |-> "succeeded", asset |-> FALSE],
     [net |-> "ok", status |-> "succeeded", asset |-> TRUE]}

Terminal(r) == r.net = "ok" /\ r.status \in {"succeeded", "failed"}
NonTerminal(r) == r.net = "ok" /\ r.status \in {"pending", "running"}

NoDelivery == [ok |-> FALSE, message |-> "none", asset |-> FALSE]

\* No generation call in progress.
NoJob ==
    [kind |-> "none", phase |-> "idle", maxAttempts |-> 0, attempts |-> 0,
     checks |-> 0,              \* status requests issued so far
     onlyRunning |-> TRUE,      \* every status request so far came back pending/running
     terminalSeen |-> "none",   \* the first terminal status a request came back with
     checksAfterTerminal |-> 0, \* status requests issued after that one
     checkErrors |-> 0,         \* status requests that failed (network / HTTP)
     pollResult |-> "none",     \* how the poll function ended
     asset |-> FALSE,           \* the result the poll function returned carries an asset
     delivered |-> NoDelivery]  \* what the generate call handed to its caller

\* The loop condition off by one: while (attempts <= maxAttempts)
loopContinues_inclusive(attempts, maxAttempts) == attempts <= maxAttempts

\* while (attempts < maxAttempts)
loopContinues(attempts, maxAttempts) == attempts < maxAttempts

\* Bookkeeping of one status request and its response.
observe(j, r) ==
    [j EXCEPT
        !.checks = @ + 1,
        !.onlyRunning = @ /\ NonTerminal(r),
        !.terminalSeen = IF @ = "none" /\ Terminal(r) THEN r.status ELSE @,
        !.checksAfterTerminal = IF j.terminalSeen # "none" THEN @ + 1 ELSE @,
        !.checkErrors = IF r.net # "ok" THEN @ + 1 ELSE @]

\* The end of an iteration that neither returned nor threw out of the loop:
\* attempts++, and the Timeout error once the loop condition fails.
nextAttempt(j) ==
    LET a == j.attempts + 1
    IN  IF loopContinues(a, j.maxAttempts)
        THEN [j EXCEPT !.attempts = a]
        ELSE [j EXCEPT !.attempts = a, !.pollResult = "timeout"]

\* One iteration of RunwayService.pollForCompletion.
pollForCompletion(j, r) ==
    IF r.net = "network_error"
    THEN [j EXCEPT !.pollResult = "fetch_error"]         \* fetch's rejection propagates
    ELSE IF r.net = "http_error"
    THEN [j EXCEPT !.pollResult = "check_error"]         \* throw: !response.ok
    ELSE IF r.status \in {"succeeded", "failed"}
    THEN [j EXCEPT !.pollResult = r.status, !.asset = r.asset]
    ELSE nextAttempt(j)

\* One iteration of RunwayService.pollForVideoCompletion.
pollForVideoCompletion(j, r) ==
    IF r.net # "ok"
    THEN nextAttempt(j)                                     \* catch: attempts++
    ELSE IF r.status \in {"succeeded", "failed"}
    THEN [j EXCEPT !.pollResult = r.status, !.asset = r.asset]
    ELSE nextAttempt(j)

\* One iteration of HeyGenService.pollVideoStatus. The error thrown for status
\* 'failed' is thrown inside the try block, so the loop's own catch takes it.
pollVideoStatus(j, r) ==
    IF r.net # "ok"
    THEN nextAttempt(j)                                     \* catch: attempts++
    ELSE IF r.status = "succeeded"
    THEN [j EXCEPT !.pollResult = "succeeded", !.asset = r.asset]
    ELSE IF r.status = "failed"
    THEN nextAttempt(j)                                     \* catch: attempts++
    ELSE nextAttempt(j)

\* RunwayService.generateImage after the poll: its catch rethrows the error.
RunwayService_generateImage(j) ==
    CASE j.pollResult = "fetch_error" ->
            [ok |-> FALSE, message |-> "Failed to fetch", asset |-> FALSE]
      [] j.pollResult = "check_error" ->
            [ok |-> FALSE, message |-> "Erro ao verificar status", asset |-> FALSE]
      [] j.pollResult = "timeout" ->
            [ok |-> FALSE, asset |-> FALSE,
             message |-> "Timeout: Geração levou muito tempo para completar"]
      [] j.pollResult = "failed" ->
            [ok |-> FALSE, message |-> "Geração falhou", asset |-> FALSE]
      [] j.pollResult = "succeeded" /\ ~j.asset ->
            [ok |-> FALSE, message |-> "Nenhuma imagem retornada", asset |-> FALSE]
      [] j.pollResult = "succeeded" /\ j.asset ->
            [ok |-> TRUE, message |-> "none", asset |-> TRUE]

\* RunwayService.generateVideo after the poll: its catch replaces every error by
\* one message; RunwayVideoProvider passes the result on.
RunwayService_generateVideo(j) ==
    IF j.pollResult = "succeeded" /\ j.asset
    THEN [ok |-> TRUE, message |-> "none", asset |-> TRUE]
    ELSE [ok |-> FALSE, asset |-> FALSE,
          message |-> "Falha na geração de vídeo Runway. Verifique sua chave API."]

\* HeyGenService.generateVideo after the poll (its catch replaces every error by
\* one message), then HeyGenProvider.generateVideo: video_url: result.video_url || ''.
HeyGenProvider_generateVideo(j) ==
    IF j.pollResult = "succeeded"
    THEN [ok |-> TRUE, message |-> "none", asset |-> j.asset]
    ELSE [ok |-> FALSE, asset |-> FALSE,
          message |-> "Falha na geração de vídeo. Verifique sua chave API HeyGen."]

\* The generate call's continuation once the poll function has ended.
deliver(j) ==
    IF j.pollResult = "none"
    THEN j
    ELSE [j EXCEPT
            !.phase = "done",
            !.delivered =
                CASE j.kind = "runwayImage" -> RunwayService_generateImage(j)
                  [] j.kind = "runwayVideo" -> RunwayService_generateVideo(j)
                  [] j.kind = "heygen"      -> HeyGenProvider_generateVideo(j)]

\* The message a failed submission is delivered with.
submitFailure(kind) ==
    CASE kind = "runwayImage" -> "Runway API erro"
      [] kind = "runwayVideo" ->
            "Falha na geração de vídeo Runway. Verifique sua chave API."
      [] kind = "heygen" ->
            "Falha na geração de vídeo. Verifique sua chave API HeyGen."

\* generateImage / generateVideo up to the first status request: POST the job;
\* a rejected submission is delivered at once and no polling begins.
Submit(kind, maxAttempts, submitOk) ==
    /\ job.phase = "idle"
    /\ job' = IF submitOk
              THEN [NoJob EXCEPT !.kind = kind, !.phase = "polling",
                                 !.maxAttempts = maxAttempts]
              ELSE [NoJob EXCEPT !.kind = kind, !.phase = "done",
                                 !.maxAttempts = maxAttempts,
                                 !.pollResult = "not_started",
                                 !.delivered = [ok |-> FALSE, asset |-> FALSE,
                                                message |-> submitFailure(kind)]]
    /\ UNCHANGED <<storeVars, call, rec, batch, service>>

\* One status request of a Runway image job and what follows it.
RunwayImagePoll(r) ==
    /\ job.phase = "polling" /\ job.kind = "runwayImage"
    /\ loopContinues(job.attempts, job.maxAttempts)
    /\ job' = deliver(pollForCompletion(observe(job, r), r))
    /\ UNCHANGED <<storeVars, call, rec, batch, service>>

\* One status request of a Runway video job and what follows it.
RunwayVideoPoll(r) ==
    /\ job.phase = "polling" /\ job.kind = "runwayVideo"
    /\ loopContinues(job.attempts, job.maxAttempts)
    /\ job' = deliver(pollForVideoCompletion(observe(job, r), r))
    /\ UNCHANGED <<storeVars, call, rec, batch, service>>

\* One status request of a HeyGen job and what follows it.
HeyGenPoll(r) ==
    /\ job.phase = "polling" /\ job.kind = "heygen"
    /\ loopContinues(job.attempts, job.maxAttempts)
    /\ job' = deliver(pollVideoStatus(observe(job, r), r))
    /\ UNCHANGED <<storeVars, call, rec, batch, service>>

-----------------------------------------------------------------------------
(* Audio recorder: the useAudioRecorder hook.                               *)
(* rec holds the hook's React state (isRecording .. error), its refs        *)
(* (mediaRecorderRef .. timerRef) and the browser objects it created:       *)
(*   streams    every MediaStream getUserMedia returned: "live" until its   *)
(*              tracks are stopped                                          *)
(*   recorders  every MediaRecorder constructed, with the stream it records *)
(*   timers     the intervals that are still ticking                        *)
(*   urls       every object URL created: "live" until revoked              *)
(* Handlers run with the state of the latest render.                        *)

\* startRecording calls explored.
MaxStarts == 2

\* The elapsed-time counter is followed up to this many seconds.
MaxDuration == 2

\* null for a ref or a state that holds an object id (ids start at 1).
Null == 0

NoError == "none"

InitRec ==
    [isRecording |-> FALSE, isPlaying |-> FALSE, isPaused |-> FALSE,
     recordedBlob |-> Null, recordedUrl |-> Null, duration |-> 0,
     error |-> NoError,
     mediaRecorderRef |-> Null, audioRef |-> Null, streamRef |-> Null,
     chunksRef |-> {}, timerRef |-> Null,
     streams |-> <<>>, recorders |-> <<>>, timers |-> {}, urls |-> <<>>,
     audioPlaying |-> FALSE,   \* the Audio element of audioRef is playing
     pendingStart |-> 0,       \* getUserMedia requests not yet answered
     starts |-> 0,             \* startRecording calls so far
     lastCall |-> "none"]      \* the last action the user invoked

\* What the browser answers to startRecording's requests:
\*   "granted"      a stream, and the MediaRecorder is constructed and started
\*   "denied"       getUserMedia rejects (permission, no device)
\*   "unsupported"  a stream, but new MediaRecorder(stream, {mimeType}) throws
MediaOutcomes == {"granted", "denied", "unsupported"}

LiveStreams(r) == {s \in DOMAIN r.streams : r.streams[s] = "live"}

\* streamRef.current.getTracks().forEach(track => track.stop())
stopTracks(streams, s) ==
    IF s \in DOMAIN streams THEN [streams EXCEPT ![s] = "stopped"] ELSE streams

\* startRecording up to its await: setError(null), then getUserMedia is asked.
startRecording ==
    /\ rec.starts < MaxStarts
    /\ rec' = [rec EXCEPT !.error = NoError,
                          !.pendingStart = @ + 1,
                          !.starts = @ + 1,
                          !.lastCall = "start"]
    /\ UNCHANGED <<storeVars, call, job, batch, service>>

\* startRecording after its await, or its catch.
startRecording_resume(outcome) ==
    /\ rec.pendingStart > 0
    /\ LET s == Len(rec.streams) + 1
           m == Len(rec.recorders) + 1
       IN  rec' =
             CASE outcome = "denied" ->
                    [rec EXCEPT !.pendingStart = @ - 1,
                                !.error = "Erro ao acessar microfone"]
               [] outcome = "unsupported" ->
                    [rec EXCEPT !.pendingStart = @ - 1,
                                !.streams = Append(@, "live"),
                                !.streamRef = s,
                                !.chunksRef = {},
                                !.error = "Erro ao acessar microfone"]
               [] outcome = "granted" ->
                    [rec EXCEPT !.pendingStart = @ - 1,
                                !.streams = Append(@, "live"),
                                !.streamRef = s,
                                !.chunksRef = {},
                                !.recorders = Append(@, [stream |-> s,
                                                         state |-> "recording",
                                                         stopPending |-> FALSE]),
                                !.mediaRecorderRef = m,
                                !.isRecording = TRUE,
                                !.duration = 0,
                                !.timers = @ \cup {m},
                                !.timerRef = m]
    /\ UNCHANGED <<storeVars, call, job, batch, service>>

\* mediaRecorder.ondataavailable: chunksRef.current.push(event.data)
ondataavailable(m) ==
    /\ m \in DOMAIN rec.recorders
    /\ rec.recorders[m].state = "recording"
    /\ m \notin rec.chunksRef
    /\ rec' = [rec EXCEPT !.chunksRef = @ \cup {m}]
    /\ UNCHANGED <<storeVars, call, job, batch, service>>

\* The interval's callback: setDuration(prev => prev + 1)
tick(t) ==
    /\ t \in rec.timers
    /\ rec.duration < MaxDuration
    /\ rec' = [rec EXCEPT !.duration = @ + 1]
    /\ UNCHANGED <<storeVars, call, job, batch, service>>

\* The body of stopRecording, on hook state r.
stopRecordingBody(r) ==
    IF r.mediaRecorderRef # Null /\ r.isRecording
    THEN [r EXCEPT
            !.recorders[r.mediaRecorderRef] =
                [@ EXCEPT !.state = "inactive", !.stopPending = TRUE],
            !.isRecording = FALSE,
            !.timers = @ \ {r.timerRef},
            !.timerRef = Null]
    ELSE r

stopRecording ==
    /\ rec.mediaRecorderRef # Null /\ rec.isRecording
    /\ rec' = [stopRecordingBody(rec) EXCEPT !.lastCall = "stop"]
    /\ UNCHANGED <<storeVars, call, job, batch, service>>

\* mediaRecorder.onstop of recorder m: the blob and its URL are made from
\* chunksRef.current, and the stream in streamRef.current is stopped.
onstop(m) ==
    /\ m \in DOMAIN rec.recorders
    /\ rec.recorders[m].stopPending
    /\ LET u == Len(rec.urls) + 1
       IN  rec' = [rec EXCEPT
                    !.recorders[m].stopPending = FALSE,
                    !.recordedBlob = m,
                    !.urls = Append(@, "live"),
                    !.recordedUrl = u,
                    !.streams = stopTracks(@, rec.streamRef),
                    !.streamRef = Null]
    /\ UNCHANGED <<storeVars, call, job, batch, service>>

playRecording ==
    /\ rec.recordedUrl # Null /\ ~rec.isPlaying
    /\ rec' = [rec EXCEPT
                !.audioRef = IF @ = Null THEN rec.recordedUrl ELSE @,
                !.audioPlaying = TRUE,
                !.isPaused = FALSE,
                !.isPlaying = TRUE,
                !.lastCall = "play"]
    /\ UNCHANGED <<storeVars, call, job, batch, service>>

pausePlayback ==
    /\ rec.audioRef # Null /\ rec.isPlaying
    /\ rec' = [rec EXCEPT !.audioPlaying = FALSE,
                          !.isPlaying = FALSE,
                          !.isPaused = TRUE,
                          !.lastCall = "pause"]
    /\ UNCHANGED <<storeVars, call, job, batch, service>>

\* audioRef.current.onended
onended ==
    /\ rec.audioRef # Null /\ rec.audioPlaying
    /\ rec' = [rec EXCEPT !.audioPlaying = FALSE,
                          !.isPlaying = FALSE,
                          !.isPaused = FALSE]
    /\ UNCHANGED <<storeVars, call, job, batch, service>>

resetRecording ==
    /\ LET r == stopRecordingBody(rec)      \* if (isRecording) stopRecording()
       IN  rec' = [r EXCEPT
                    !.audioRef = Null,
                    !.audioPlaying = FALSE,
                    !.timers = @ \ {r.timerRef},
                    !.timerRef = Null,
                    !.urls = IF rec.recordedUrl # Null
                             THEN [@ EXCEPT ![rec.recordedUrl] = "revoked"]
                             ELSE @,
                    !.isRecording = FALSE,
                    !.isPlaying = FALSE,
                    !.isPaused = FALSE,
                    !.recordedBlob = Null,
                    !.recordedUrl = Null,
                    !.duration = 0,
                    !.error = NoError,
                    !.lastCall = "reset"]
    /\ UNCHANGED <<storeVars, call, job, batch, service>>

-----------------------------------------------------------------------------
(* Ad batch: AdCreator.generateMultipleOptions.                             *)
(* batch holds one run of the handler:                                      *)
(*   total          the number of ad promises created                       *)
(*   outcome        what happened provider-side to request i                *)
(*   results        what Promise.allSettled reports for promise i           *)
(*   successfulAds  what the handler hands to setGeneratedImages            *)
(*   toast          the toast the handler ends with                         *)

MaxPhrases == 3
MaxAds == 8

Min(a, b) == IF a < b THEN a ELSE b

\* What the provider calls of one ad can do: both resolve, generateImage
\* rejects, or generateVideo rejects.
AdOutcomes == {"ok", "image_failed", "video_failed"}

NoBatch ==
    [phase |-> "idle", total |-> 0, outcome |-> <<>>, results |-> <<>>,
     successfulAds |-> <<>>, toast |-> "none"]

\* The ad object request i returns; i < totalAds <= topPhrases.length, so
\* topPhrases[i % topPhrases.length] is phrase i.
Ad(i) == [topPhrase |-> i, isComplete |-> TRUE]

\* The value null, as a record of the ad's shape.
NullAd == [topPhrase |-> 0, isComplete |-> FALSE]

Pending == [status |-> "pending", value |-> NullAd, reason |-> "none"]

\* The async function of request i: the ad when both provider calls resolve;
\* the catch logs the error and returns null, so the promise is fulfilled
\* either way and carries no reason.
adPromise(i, outcome) ==
    IF outcome = "ok"
    THEN [status |-> "fulfilled", value |-> Ad(i), reason |-> "none"]
    ELSE [status |-> "fulfilled", value |-> NullAd, reason |-> "none"]

\* results.filter(fulfilled && value !== null).map(value), in index order.
RECURSIVE successful(_, _)
successful(results, n) ==
    IF n = 0 THEN <<>>
    ELSE LET rest == successful(results, n - 1)
         IN  IF results[n].status = "fulfilled" /\ results[n].value # NullAd
             THEN Append(rest, results[n].value)
             ELSE rest

\* generateMultipleOptions up to the creation of the ad promises: the Runway
\* key check, the forced Runway selections (two saves), the text generation
\* (textOk: it resolved with `phrases` top phrases) and
\* totalAds = Math.min(8, topPhrases.length).
generateMultipleOptions(phrases, textOk, writeOk) ==
    /\ batch.phase \in {"idle", "done"}
    /\ call' = NoCall
    /\ IF ~Truthy(getApiKey("runway"))
       THEN /\ batch' = [NoBatch EXCEPT !.phase = "done",
                   !.toast = "Configure a chave API do Runway para gerar anúncios completos"]
            /\ UNCHANGED <<storeVars>>
       ELSE /\ selectedImageProvider' = "runway"
            /\ selectedVideoProvider' = "runway"
            /\ UNCHANGED <<config, selectedTextProvider, extra, listeners, subs, snapshot>>
            /\ storage' = IF writeOk THEN JSONstringify(settings', 0) ELSE storage
            /\ notified' =
                 IF writeOk
                 THEN notifyListeners([settings EXCEPT !.selectedImageProvider = "runway"])
                          \o notifyListeners(settings')
                 ELSE <<>>
            /\ report' = Report("setVideoProvider", "void",
                            SaveToasts(writeOk, "Provedor de imagem alterado")
                                \o SaveToasts(writeOk, "Provedor de vídeo alterado"))
            /\ IF textOk
               THEN LET totalAds == Min(MaxAds, phrases)
                    IN  batch' = [phase |-> "running", total |-> totalAds,
                                  outcome |-> [i \in 1..totalAds |-> "pending"],
                                  results |-> [i \in 1..totalAds |-> Pending],
                                  successfulAds |-> <<>>, toast |-> "none"]
               ELSE batch' = [NoBatch EXCEPT !.phase = "done",
                        !.toast = "Falha ao gerar múltiplas opções. Verifique sua configuração do Runway."]
    /\ UNCHANGED <<job, rec, service>>

\* Request i settles, in any order relative to the others.
adSettles(i, outcome) ==
    /\ batch.phase = "running"
    /\ i \in 1..batch.total
    /\ batch.outcome[i] = "pending"
    /\ batch' = [batch EXCEPT !.outcome[i] = outcome,
                              !.results[i] = adPromise(i, outcome)]
    /\ UNCHANGED <<storeVars, call, job, rec, service>>

\* await Promise.allSettled(adPromises) resumes: the handler keeps the
\* successful ads and shows the count.
allSettled ==
    /\ batch.phase = "running"
    /\ \A i \in 1..batch.total : batch.results[i].status # "pending"
    /\ LET successfulAds == successful(batch.results, batch.total)
       IN  batch' = [batch EXCEPT
               !.phase = "done",
               !.successfulAds = successfulAds,
               !.toast = IF Len(successfulAds) > 0
                         THEN "anúncios completos gerados com Runway!"
                         ELSE "Falha ao gerar anúncios. Verifique sua chave API do Runway."]
    /\ UNCHANGED <<storeVars, call, job, rec, service>>

-----------------------------------------------------------------------------
(* Specifications *)

Init ==
    /\ config = DefaultSettings.config
    /\ selectedImageProvider = DefaultSettings.selectedImageProvider
    /\ selectedTextProvider  = DefaultSettings.selectedTextProvider
    /\ selectedVideoProvider = DefaultSettings.selectedVideoProvider
    /\ extra = DefaultSettings.extra
    /\ storage = NoBlob
    /\ listeners = <<>>
    /\ subs = <<>>
    /\ notified = <<>>
    /\ report = NoReport
    /\ snapshot = NoSnapshot
    /\ call = NoCall
    /\ job = NoJob
    /\ batch = NoBatch
    /\ service = constructed
    /\ rec = InitRec

\* The page is opened over whatever localStorage holds: the constructor of
\* ApiConfigManager assigns this.settings = this.loadSettings().
InitStore ==
    /\ storage \in InitialBlobs
    /\ config = loadSettings(storage).config
    /\ selectedImageProvider = loadSettings(storage).selectedImageProvider
    /\ selectedTextProvider  = loadSettings(storage).selectedTextProvider
    /\ selectedVideoProvider = loadSettings(storage).selectedVideoProvider
    /\ extra = loadSettings(storage).extra
    /\ listeners = <<>>
    /\ subs = <<>>
    /\ notified = <<>>
    /\ report = NoReport
    /\ snapshot = NoSnapshot
    /\ call = NoCall
    /\ job = NoJob
    /\ batch = NoBatch
    /\ service = constructed
    /\ rec = InitRec

\* The settings panel and its import/export, with storage writes that may fail.
NextStore ==
    \/ \E p \in PanelProviders, k \in PanelKeys, w \in BOOLEAN : saveApiKey(p, k, w)
    \/ \E p \in PanelProviders, w \in BOOLEAN : removeApiKey(p, w)
    \/ \E w \in BOOLEAN : setImageProvider("runware", w)
    \/ \E w \in BOOLEAN : setTextProvider("claude", w)
    \/ \E w \in BOOLEAN : setVideoProvider("runway", w)
    \/ \E w \in BOOLEAN : clearAllSettings(w)
    \/ \E b \in ImportBlobs, w \in BOOLEAN : importSettings(b, w)
    \/ \E w \in BOOLEAN : importExported(w)
    \/ openPage

SpecStore == InitStore /\ [][NextStore]_vars

\* Imports, exports and the updates made between them, from an empty store.
NextRoundTrip ==
    \/ \E b \in {Garbage, BlobFull, BlobExtra}, w \in BOOLEAN : importSettings(b, w)
    \/ \E w \in BOOLEAN : importExported(w)
    \/ \E k \in {KeySk, KeyShort}, w \in BOOLEAN : saveApiKey("openai", k, w)
    \/ \E w \in BOOLEAN : removeApiKey("openai", w)
    \/ \E w \in BOOLEAN : setImageProvider("runware", w)
    \/ \E w \in BOOLEAN : setTextProvider("claude", w)
    \/ \E w \in BOOLEAN : setVideoProvider("runway", w)

SpecRoundTrip == Init /\ [][NextRoundTrip]_vars

\* Subscribers around a store that is being changed.
NextSubscribers ==
    \/ \E l \in ListenerFns : subscribe(l)
    \/ \E n \in 1..MaxSubs : unsubscribe(n)
    \/ \E k \in {KeySk, KeyShort}, w \in BOOLEAN : saveApiKey("openai", k, w)
    \/ removeApiKey("openai", TRUE)
    \/ setVideoProvider("runway", TRUE)
    \/ clearAllSettings(TRUE)
    \/ \E b \in {Garbage, BlobNoConfig, BlobFull}, w \in BOOLEAN :
            importSettings(b, w)

SpecSubscribers == Init /\ [][NextSubscribers]_vars

\* A caller that keeps and changes the object getSettings gave it.
NextSnapshot ==
    \/ getSettings
    \/ \E p \in PanelProviders, k \in {KeySk, <<>>} : SnapshotPutKey(p, k)
    \/ \E p \in PanelProviders : SnapshotDeleteKey(p)
    \/ SnapshotSelectVideo("runway")
    \/ \E p \in PanelProviders : saveApiKey(p, KeySk, TRUE)
    \/ \E p \in PanelProviders : removeApiKey(p, TRUE)
    \/ setVideoProvider("runway", TRUE)
    \/ clearAllSettings(TRUE)
    \/ importSettings(BlobFull, TRUE)

SpecSnapshot == Init /\ [][NextSnapshot]_vars

\* The providers whose generate method is implemented: the ones a stored key
\* lets through to a third-party API.
ImplementedProviders == {"openai", "runware", "heygen"}

NextFactory ==
    \/ \E p \in ImplementedProviders, k \in SampleKeys : updateApiKey(p, k, TRUE)
    \/ \E p \in ImplementedProviders : removeApiKey(p, TRUE)
    \/ \E p \in SelectableVideo : setVideoProvider(p, TRUE)
    \/ \E p \in SelectableImage : setImageProvider(p, TRUE)
    \/ \E p \in SelectableText : setTextProvider(p, TRUE)
    \/ clearAllSettings(TRUE)
    \/ \E p \in Explicit("video"), ok \in BOOLEAN :
            VideoFactory_generateVideo(p, ok)
    \/ \E p \in Explicit("image"), ok \in BOOLEAN :
            ImageFactory_generateImage(p, ok)
    \/ \E p \in Explicit("imageSingle"), ok \in BOOLEAN :
            ImageSingleFactory_generateImage(p, ok)
    \/ \E p \in Explicit("text"), ok \in BOOLEAN :
            TextFactory_analyzeBusinessDocument(p, ok)

SpecFactory == Init /\ [][NextFactory]_vars

\* The providers that are registered without an implementation, one of each
\* capability, with and without a stored key.
StubProviders == {"runway", "claude", "synthesia"}

NextStubs ==
    \/ \E p \in StubProviders : updateApiKey(p, KeyA, TRUE)
    \/ \E p \in StubProviders : removeApiKey(p, TRUE)
    \/ \E p \in Explicit("image"), ok \in BOOLEAN :
            ImageFactory_generateImage(p, ok)
    \/ \E p \in Explicit("video"), ok \in BOOLEAN :
            VideoFactory_generateVideo(p, ok)
    \/ \E p \in Explicit("text"), ok \in BOOLEAN :
            TextFactory_analyzeBusinessDocument(p, ok)

SpecStubs == Init /\ [][NextStubs]_vars

\* The OpenAI and Runware credentials stored, replaced and removed between
\* calls of the factories that reach them, and the page opened again.
NextCredentials ==
    \/ \E p \in {"openai", "runware"}, k \in {KeyA, KeyB} : updateApiKey(p, k, TRUE)
    \/ \E p \in {"openai", "runware"} : removeApiKey(p, TRUE)
    \/ openPage
    \/ \E p \in {"openai", "runware"}, ok \in BOOLEAN :
            ImageFactory_generateImage(p, ok)
    \/ \E ok \in BOOLEAN : ImageSingleFactory_generateImage(NoProvider, ok)
    \/ \E ok \in BOOLEAN : TextFactory_analyzeBusinessDocument(NoProvider, ok)
    \/ \E ok \in BOOLEAN : TextCtorFactory_analyzeBusinessDocument(NoProvider, ok)

SpecCredentials == Init /\ [][NextCredentials]_vars

NextPoller ==
    \/ \E kind \in JobKinds, ok \in BOOLEAN :
            \E n \in Budgets(kind) : Submit(kind, n, ok)
    \/ \E r \in StatusResponses : RunwayImagePoll(r)
    \/ \E r \in StatusResponses : RunwayVideoPoll(r)
    \/ \E r \in StatusResponses : HeyGenPoll(r)

SpecPoller == Init /\ [][NextPoller]_vars

\* The event loop runs the continuation of every settled request and timer.
FairSpecPoller == SpecPoller /\ WF_vars(NextPoller)

NextRecorder ==
    \/ startRecording
    \/ \E o \in MediaOutcomes : startRecording_resume(o)
    \/ \E m \in DOMAIN rec.recorders : ondataavailable(m)
    \/ \E t \in rec.timers : tick(t)
    \/ stopRecording
    \/ \E m \in DOMAIN rec.recorders : onstop(m)
    \/ playRecording
    \/ pausePlayback
    \/ onended
    \/ resetRecording

SpecRecorder == Init /\ [][NextRecorder]_vars

\* The ad batch of the creator page, with the Runway key set or removed in
\* the settings panel between runs.
NextBatch ==
    \/ \E w \in BOOLEAN : updateApiKey("runway", KeyA, w)
    \/ removeApiKey("runway", TRUE)
    \/ \E n \in 1..MaxPhrases : \E t \in BOOLEAN : \E w \in BOOLEAN :
            generateMultipleOptions(n, t, w)
    \/ \E i \in 1..MaxPhrases : \E o \in AdOutcomes : adSettles(i, o)
    \/ allSettled

SpecBatch == Init /\ [][NextBatch]_vars

-----------------------------------------------------------------------------
(* Provider factories: properties *)

\* The Settings Store's selected provider for the capability factory f serves.
Selected(f) ==
    CASE f \in {"image", "imageSingle"} -> getSelectedImageProvider
      [] f = "video" -> getSelectedVideoProvider
      [] f \in {"text", "textCtor"} -> getSelectedTextProvider

\* C1 (configuration gating): whenever a factory's generate operation was
\* invoked and the provider it resolved is not configured, the call was
\* rejected with the factory's configuration error and issued no network
\* request.
C1_ConfigurationGating ==
    (call.factory # "none" /\ ~isConfigured(call.factory, call.resolved))
        => (call.result = "config_error" /\ call.requests = 0)

\* C1 witness: the video factory rejected a call for a stub provider that has
\* no key while another provider of the capability is configured.
C1_Witness ==
    /\ call.factory = "video" /\ call.resolved = "synthesia"
    /\ call.result = "config_error" /\ call.names = "Synthesia"
    /\ call.requests = 0
    /\ hasApiKey("heygen") /\ ~hasApiKey("synthesia")

\* C2 (no silent provider substitution): when the selected image provider is
\* runware and only openai has a stored credential, generateImage called without
\* an explicit provider is rejected with a configuration error naming Runware,
\* and no image is produced through OpenAI.
C2_NoSilentSubstitution ==
    (/\ call.factory \in {"image", "imageSingle"}
     /\ call.explicit = NoProvider
     /\ getSelectedImageProvider = "runware"
     /\ DOMAIN config = {"openai"} /\ hasApiKey("openai"))
        => (/\ call.result = "config_error"
            /\ call.names = "Runware AI"
            /\ call.provider # "openai")

\* C3 (default resolution): a factory call made without an explicit provider
\* resolves to the provider currently selected for that capability.
C3_DefaultResolution ==
    (call.factory # "none" /\ call.explicit = NoProvider)
        => call.resolved = Selected(call.factory)

-----------------------------------------------------------------------------
(* Pollers: properties *)

\* The poll function of the job was entered (the submission was accepted).
Polled == job.phase # "idle" /\ job.pollResult # "not_started"

C4_Bounded ==
    Polled =>
        /\ job.checks <= job.maxAttempts
        /\ (job.onlyRunning /\ job.checks = job.maxAttempts)
                => (job.phase = "done" /\ job.pollResult = "timeout")
        /\ (job.onlyRunning /\ job.phase = "done")
                => (job.checks = job.maxAttempts /\ job.pollResult = "timeout")

\* C4 (poller termination): for every attempt budget N >= 1 no poller issues
\* more than N status requests; a poll in which every status request comes back
\* pending/running ends with the Timeout error after exactly N requests; and
\* every poll that has begun ends.
C4_PollerTermination ==
    /\ []C4_Bounded
    /\ (job.phase = "polling") ~> (job.phase = "done")

\* C4 witness: a Runway video job with the default budget timed out after
\* exactly that many pending/running answers.
C4_Witness ==
    /\ job.kind = "runwayVideo" /\ job.maxAttempts = RunwayVideoMaxAttempts
    /\ job.phase = "done" /\ job.onlyRunning
    /\ job.checks = RunwayVideoMaxAttempts /\ job.pollResult = "timeout"

\* C5 (terminal status ends the poll loop): once a status request has come back
\* succeeded or failed, the loop has exited with that result and no further
\* status request is issued for the job.
C5_TerminalStatusEndsLoop ==
    (Polled /\ job.terminalSeen # "none")
        => (/\ job.phase = "done"
            /\ job.pollResult = job.terminalSeen
            /\ job.checksAfterTerminal = 0)

\* The failure the generate call of this kind of job delivers when its poll
\* function ends with the Timeout error.
TimeoutDelivery(kind) ==
    [NoJob EXCEPT !.kind = kind, !.pollResult = "timeout"]

\* C6 (timeout distinguishable from provider failure): the failure delivered
\* for a job the provider reported as failed differs from the failure the same
\* call delivers when the attempt budget is exhausted.
C6_TimeoutDistinctFromFailure ==
    (job.phase = "done" /\ job.terminalSeen = "failed" /\ ~job.delivered.ok)
        => job.delivered.message # deliver(TimeoutDelivery(job.kind)).delivered.message

\* C7 (poller success shape): a call whose job was reported succeeded without
\* an asset delivers a failure; a delivered success always carries an asset.
C7_SuccessCarriesAsset ==
    (job.phase = "done" /\ job.delivered.ok) => job.delivered.asset

\* C8 (transient status-check failures are tolerated): a status request that
\* fails at the network/HTTP level does not end the job; a job with such a
\* failure ends only by a terminal status or by exhausting its budget.
C8_CheckFailuresTolerated ==
    (Polled /\ job.checkErrors > 0)
        => (/\ job.pollResult \notin {"check_error", "fetch_error"}
            /\ job.phase = "done" => \/ job.pollResult \in {"succeeded", "failed"}
                                     \/ job.attempts = job.maxAttempts)

-----------------------------------------------------------------------------
(* Recorder: properties *)

\* No recorder callback is pending: every getUserMedia request was answered
\* and every stopped recorder has fired its stop event.
CallbacksDelivered ==
    /\ rec.pendingStart = 0
    /\ \A m \in DOMAIN rec.recorders : ~rec.recorders[m].stopPending

\* C9 (recorder resource safety): after a sequence of calls that ends in
\* resetRecording, with all pending recorder callbacks delivered, every audio
\* input stream that was acquired has been stopped.
C9_NoStreamHeldAfterReset ==
    (rec.lastCall = "reset" /\ CallbacksDelivered) => LiveStreams(rec) = {}

\* C10 (stream held only while Recording): in every reachable recorder state
\* with no recorder callback pending, an audio input stream that is held
\* (acquired and not yet stopped) implies isRecording; in particular no stream
\* is held after stopRecording or after a failed startRecording.
C10_StreamHeldOnlyWhileRecording ==
    (LiveStreams(rec) # {} /\ CallbacksDelivered) => rec.isRecording

-----------------------------------------------------------------------------
(* Settings store: properties *)

\* C11 (credential round-trip): for every (provider, key) pair validateApiKey
\* accepts, saving the key leaves the settings showing that key stored for the
\* provider, and removing the provider's key leaves the provider's entry
\* absent from config.
C11_CredentialRoundTrip ==
    [][\A p \in PanelProviders, w \in BOOLEAN :
        /\ \A k \in PanelKeys :
              (validateApiKey(p, k) /\ saveApiKey(p, k, w))
                  => (p \in DOMAIN settings'.config /\ settings'.config[p] = k)
        /\ removeApiKey(p, w) => p \notin DOMAIN settings'.config]_vars

C13_StoredKeysAreValid ==
    \A p \in DOMAIN config :
        /\ Trim(config[p]) # <<>>
        /\ validateApiKey(p, config[p])

\* C14 (export/import idempotence): from every reachable state of the store,
\* importing the text exportSettings returns succeeds and leaves the settings
\* as they were: the same credentials and the same selected text, image and
\* video providers.
C14_ExportImportIdempotent ==
    [][\A w \in BOOLEAN :
        importExported(w) => (report'.returned = "true" /\ settings' = settings)]_vars

\* The text parses to an object that has a credential mapping.
HasCredentialMapping(b) == ~JSONparse(b).threw /\ JSONparse(b).hasConfig

\* C15 (backward-compatible import): importing a blob that has a credential
\* mapping but no video selection succeeds, and the selected video provider
\* afterwards is the default that loadSettings and clearAllSettings use.
C15_ImportDefaultsVideo ==
    [][\A b \in ImportBlobs, w \in BOOLEAN :
        (/\ HasCredentialMapping(b)
         /\ JSONparse(b).selectedVideoProvider = NoProvider
         /\ importSettings(b, w))
            => /\ report'.returned = "true"
               /\ selectedVideoProvider' = DefaultSettings.selectedVideoProvider]_vars

\* C16 (import minimal shape): every blob that parses and has a credential
\* mapping is accepted, whichever selections it lacks, and afterwards every
\* selected-provider field has a value.
C16_ImportMinimalShape ==
    [][\A b \in ImportBlobs, w \in BOOLEAN :
        (HasCredentialMapping(b) /\ importSettings(b, w))
            => /\ report'.returned = "true"
               /\ selectedImageProvider' # NoProvider
               /\ selectedTextProvider' # NoProvider
               /\ selectedVideoProvider' # NoProvider]_vars

\* C17 (rejected import leaves the state untouched): importing text that does
\* not parse, or that parses to an object without a credential mapping,
\* returns false, leaves the settings and the stored blob as they were and
\* invokes no listener.
C17_RejectedImportIsNoOp ==
    [][\A b \in ImportBlobs, w \in BOOLEAN :
        (~HasCredentialMapping(b) /\ importSettings(b, w))
            => /\ report'.returned = "false"
               /\ settings' = settings
               /\ storage' = storage
               /\ notified' = <<>>]_vars

\* An import was rejected while a key was stored and a listener subscribed.
C17_Witness ==
    /\ report.op = "importSettings"
    /\ report.returned = "false"
    /\ hasApiKey("openai")
    /\ Len(listeners) > 0
    /\ storage.kind = "json"

\* The caller of the last store operation was given a failure: the operation
\* returned false or threw.
CallerToldOfFailure == report.returned \in {"false", "threw"}

\* C18 (persistence write failure): when the storage write fails during a
\* mutating operation (updateApiKey through saveApiKey, removeApiKey,
\* setImageProvider / setTextProvider / setVideoProvider, importSettings,
\* clearAllSettings), the caller is given a failure and the in-memory settings
\* hold the mutated value.
C18_WriteFailureReported ==
    [][/\ \A p \in PanelProviders :
            /\ \A k \in PanelKeys :
                  (validateApiKey(p, k) /\ saveApiKey(p, k, FALSE))
                      => (CallerToldOfFailure' /\ p \in DOMAIN config')
            /\ removeApiKey(p, FALSE)
                  => (CallerToldOfFailure' /\ p \notin DOMAIN config')
       /\ setImageProvider("runware", FALSE)
            => (CallerToldOfFailure' /\ selectedImageProvider' = "runware")
       /\ setTextProvider("claude", FALSE)
            => (CallerToldOfFailure' /\ selectedTextProvider' = "claude")
       /\ setVideoProvider("runway", FALSE)
            => (CallerToldOfFailure' /\ selectedVideoProvider' = "runway")
       /\ clearAllSettings(FALSE)
            => (CallerToldOfFailure' /\ settings' = DefaultSettings)
       /\ \A b \in ImportBlobs :
            (importAccepts(JSONparse(b)) /\ importSettings(b, FALSE))
                => (CallerToldOfFailure' /\ config' = JSONparse(b).config)]_vars

\* The listeners of the subscriptions whose unsubscribe function has not been
\* called, in the order of the subscribe() calls.
RECURSIVE ActiveListeners(_)
ActiveListeners(ss) ==
    IF ss = <<>> THEN <<>>
    ELSE (IF Head(ss).active THEN <<Head(ss).listener>> ELSE <<>>)
            \o ActiveListeners(Tail(ss))

\* The last store operation changed the settings and its write succeeded.
SuccessfulMutation ==
    /\ report.op \in {"updateApiKey", "removeApiKey", "setImageProvider",
                       "setTextProvider", "setVideoProvider", "clearAllSettings",
                       "importSettings"}
    /\ report.returned # "false"
    /\ (report.toasts = <<>> \/ Head(report.toasts) # SaveErrorToast)

\* C19 (subscriber notification): a successful mutation invokes, before it
\* returns, the listener of every subscription that has not been
\* unsubscribed, once per subscription and in subscription order, each with
\* the settings as they are after the mutation; a listener subscribed twice is
\* invoked twice and an unsubscribed subscription is not invoked.
C19_SubscribersNotifiedInOrder ==
    SuccessfulMutation
        => /\ Len(notified) = Len(ActiveListeners(subs))
           /\ \A i \in 1..Len(notified) :
                 /\ notified[i].listener = ActiveListeners(subs)[i]
                 /\ notified[i].settings = settings

\* C20 (getSettings returns a copy): a caller that adds, changes or deletes
\* an entry of the config of the object getSettings returned, or changes one
\* of its other properties, leaves the store's own settings (what a later
\* getSettings, getApiKey or hasApiKey shows) unchanged.
C20_SnapshotIsACopy ==
    [][/\ \A p \in PanelProviders :
            /\ \A k \in {KeySk, <<>>} :
                  SnapshotPutKey(p, k)
                      => (settings' = settings /\ hasApiKey(p)' = hasApiKey(p))
            /\ SnapshotDeleteKey(p)
                  => (settings' = settings /\ hasApiKey(p)' = hasApiKey(p))
       /\ SnapshotSelectVideo("runway") => settings' = settings]_vars

\* C21 (load yields a complete snapshot): whatever localStorage holds, the
\* settings loadSettings produces have a selected provider for every
\* capability, the default filling each field the stored record lacks.
C21_LoadYieldsCompleteSnapshot ==
    report.op = "loadSettings"
        => /\ report.returned = "object"
           /\ selectedImageProvider # NoProvider
           /\ selectedTextProvider # NoProvider
           /\ selectedVideoProvider # NoProvider

\* C22 (unrecognized fields survive a round trip): after an accepted import
\* the text exportSettings returns carries every property of the imported
\* object that ApiSettings does not have, with its value, and credential and
\* provider-selection updates leave those properties in the export as they
\* were.
C22_UnrecognizedFieldsSurvive ==
    [][/\ \A b \in ImportBlobs, w \in BOOLEAN :
            (importAccepts(JSONparse(b)) /\ importSettings(b, w))
                => exportSettings'.extra = JSONparse(b).extra
       /\ \A p \in PanelProviders, w \in BOOLEAN :
            /\ \A k \in PanelKeys :
                  saveApiKey(p, k, w) => exportSettings'.extra = exportSettings.extra
            /\ removeApiKey(p, w) => exportSettings'.extra = exportSettings.extra
       /\ \A w \in BOOLEAN :
            /\ setImageProvider("runware", w)
                  => exportSettings'.extra = exportSettings.extra
            /\ setTextProvider("claude", w)
                  => exportSettings'.extra = exportSettings.extra
            /\ setVideoProvider("runway", w)
                  => exportSettings'.extra = exportSettings.extra]_vars

\* A key was removed after an import that brought an unrecognized property,
\* and the export still carries the property.
C22_Witness ==
    /\ report.op = "removeApiKey"
    /\ "openai" \notin DOMAIN config
    /\ "theme" \in DOMAIN exportSettings.extra
    /\ exportSettings.extra["theme"] = "dark"

-----------------------------------------------------------------------------
(* Provider factories: further properties *)

\* C23 (not-implemented is a distinct outcome): a generate call that resolves
\* to a registered provider without an implementation is rejected with the
\* not-implemented error, not with the configuration error of an unconfigured
\* provider; stated here for the calls made while a key is stored for the
\* provider, the case in which no configuration error is due.
C23_NotImplementedIsDistinct ==
    (/\ call.factory # "none"
     /\ call.resolved \in Stubs(call.factory)
     /\ hasApiKey(call.resolved))
        => call.result = "not_implemented"

\* C24 (isConfigured is a function of the stored credentials): for every
\* registered provider of every capability, isConfigured() is true exactly
\* when the store holds a key for the provider.
C24_IsConfiguredFollowsStore ==
    \A f \in Factories : \A id \in Registry(f) :
        isConfigured(f, id) <=> hasApiKey(id)

-----------------------------------------------------------------------------
(* Ad batch: properties *)

Failed(i) == batch.outcome[i] \in {"image_failed", "video_failed"}

\* C25: when the jointly awaited batch is over and some request failed
\* provider-side, every request that did not fail has delivered its ad to
\* the caller, and for every failed request the caller holds, at the index
\* of that request, a failure with its reason.
C25_BatchPartialFailure ==
    (batch.phase = "done" /\ \E i \in 1..batch.total : Failed(i))
        => /\ \A i \in 1..batch.total :
                 batch.outcome[i] = "ok"
                     => \E k \in 1..Len(batch.successfulAds) :
                            batch.successfulAds[k] = Ad(i)
           /\ \A i \in 1..batch.total :
                 Failed(i) => /\ batch.results[i].status = "rejected"
                              /\ batch.results[i].reason = batch.outcome[i]

-----------------------------------------------------------------------------
(* Recorder: further properties *)

\* C26 (reset returns to a clean Idle): when the last call was resetRecording,
\* from any state, and every pending recorder callback has run, the three
\* flags are false, the duration is 0, the error is cleared, the blob and the
\* playback URL are null, and every object URL that was created is revoked.
C26_ResetReturnsToCleanIdle ==
    (rec.lastCall = "reset" /\ CallbacksDelivered)
        => /\ ~rec.isRecording /\ ~rec.isPlaying /\ ~rec.isPaused
           /\ rec.duration = 0
           /\ rec.error = NoError
           /\ rec.recordedBlob = Null
           /\ rec.recordedUrl = Null
           /\ \A u \in DOMAIN rec.urls : rec.urls[u] = "revoked"

\* C27 (startRecording only from Idle): at any time at most one acquired
\* input stream is live and at most one elapsed-time timer is ticking.
C27_OneStreamOneTimer ==
    /\ Cardinality(LiveStreams(rec)) <= 1
    /\ Cardinality(rec.timers) <= 1

\* C30 (playback targets the current recording): whenever playRecording
\* starts playback, the audio element plays the current playback URL, and
\* every object URL of an earlier recording has been revoked.
C30_PlaybackTargetsCurrentRecording ==
    [][playRecording
          => /\ rec'.audioRef = rec.recordedUrl
             /\ \A u \in DOMAIN rec.urls :
                    u # rec.recordedUrl => rec.urls[u] = "revoked"]_vars

-----------------------------------------------------------------------------
(* Settings store: further properties *)

\* The last store operation was a mutation whose storage write threw.
WriteFailedMutation ==
    /\ report.op \in {"updateApiKey", "removeApiKey", "setImageProvider",
                       "setTextProvider", "setVideoProvider", "clearAllSettings",
                       "importSettings"}
    /\ report.toasts # <<>>
    /\ Head(report.toasts) = SaveErrorToast

\* C29 (notification follows a successful write only): whenever listeners
\* were invoked by the last operation, the stored blob is the serialisation
\* of the store's settings, i.e. the write of that mutation succeeded; and a
\* mutation whose write threw invoked no listener.
C29_NotifyOnlyAfterSuccessfulWrite ==
    /\ notified # <<>> => storage = JSONstringify(settings, 0)
    /\ WriteFailedMutation => notified = <<>>

\* A mutation changed the in-memory settings, its write threw, and the
\* subscribed listeners were not invoked: what they saw last is not the
\* store's state.
C29_Witness ==
    /\ WriteFailedMutation
    /\ listeners # <<>>
    /\ notified = <<>>
    /\ storage # JSONstringify(settings, 0)

-----------------------------------------------------------------------------
(* Provider factories: credentials *)

\* C28 (latest credential is used): whenever a factory call was made for an
\* implemented provider that has a stored credential, the call reached the
\* third-party API and authenticated with the key stored at that moment,
\* whatever key was stored, or missing, earlier.
C28_LatestCredentialUsed ==
    (/\ call.factory # "none"
     /\ call.resolved \notin Stubs(call.factory)
     /\ hasApiKey(call.resolved))
        => /\ call.result \in {"success", "provider_error"}
           /\ call.apiKey = getApiKey(call.resolved)

====
